---------------------------- MODULE Spec2Model ----------------------------
(***************************************************************************)
(* LLM quiz solver: the quiz chain driver (main.py, process_quiz_chain),   *)
(* the two HTTP handlers that share its task store (handle_quiz,           *)
(* get_quiz_status), the answer parser (quiz_solver.py, parse_answer) and  *)
(* the submit URL extraction (main.py, extract_submit_url).                *)
(*                                                                         *)
(* The server runs one asyncio event loop.  A coroutine runs alone from    *)
(* one suspension point to the next; `running` names the coroutine that    *)
(* holds the loop.  fetch_quiz_page and asyncio.sleep suspend; the model   *)
(* call (solver.analyze_data) and the submission (requests.post) are       *)
(* synchronous calls made from a coroutine, so the loop stays held while   *)
(* they are in progress.  Program counters are named after source lines    *)
(* of main.py.                                                             *)
(***************************************************************************)
EXTENDS Integers, Sequences, FiniteSets, TLC

VARIABLES
    quiz_results,   \* main.py:40   task id -> [status, logs, result]
    pc,             \* position of each task's process_quiz_chain coroutine
    running,        \* the coroutine holding the event loop, or None
    now,            \* wall clock (datetime.now()), minutes since the first request
    uuid_pool,      \* ids uuid.uuid4() has not returned yet
    follow_ups,     \* next-URL verdicts the quiz server will still issue
    follow_up_verdicts, \* the next-URL verdicts this quiz server issues
    args,           \* arguments of process_quiz_chain: email, secret, initial_url
    current_url,    \* main.py:149
    attempt_start,  \* main.py:150
    attempt_count,  \* main.py:152
    quiz_data,      \* main.py:174  the extracted instruction
    submit_url,     \* main.py:178
    llm_error,      \* the model call of this iteration raised (quiz_solver.py:80)
    payload,        \* main.py:121  the body of the POST in progress
    result,         \* main.py:196  the last verdict
    exc,            \* main.py:221  the message of the exception being handled
    renders,        \* calls of fetch_quiz_page made so far, per task
    posts,          \* calls of requests.post made so far, per task
    response,       \* the HTTP response produced by the step just taken
    p_instruction,  \* parse_answer: its instruction argument
    p_response,     \* parse_answer: its response argument
    p_answer,       \* parse_answer: its return value
    p_pc,           \* parse_answer: "call" before, "ret" after
    e_html,         \* extract_submit_url: its html argument
    e_url,          \* extract_submit_url: its return value
    e_pc            \* extract_submit_url: "call" before, "ret" after

vars == <<quiz_results, pc, running, now, uuid_pool, follow_ups,
          follow_up_verdicts, args,
          current_url, attempt_start, attempt_count, quiz_data, submit_url,
          llm_error, payload, result, exc, renders, posts, response,
          p_instruction, p_response, p_answer, p_pc, e_html, e_url, e_pc>>

taskVars == <<quiz_results, pc, running, now, uuid_pool, follow_ups,
              follow_up_verdicts, args,
              current_url, attempt_start, attempt_count, quiz_data, submit_url,
              llm_error, payload, result, exc, renders, posts, response>>

parseVars == <<p_instruction, p_response, p_answer, p_pc>>

extractVars == <<e_html, e_url, e_pc>>

-----------------------------------------------------------------------------
(* Bounds and program constants *)

\* The clock is advanced MaxTicks times at most, TimeBudget minutes at a time.
MaxTicks == 2

\* Follow-up URLs the quiz server issues in a run with one task (Spec).
ChainLen == 10

\* Follow-up URLs the quiz server issues in a run with two tasks (SpecConc).
ConcChainLen == 2

\* Longest model text handed to parse_answer (SpecParse).
MaxLen == 4

\* Most pieces of page text joined into one page for extract_submit_url
\* (SpecExtract).
MaxPieces == 3

\* main.py:151
max_attempts == 10

\* main.py:160  timedelta(minutes=3)
TimeBudget == 3

None == "None"

TaskIds == {"t1", "t2"}

STUDENT_EMAIL == "student@example.com"

STUDENT_SECRET == "s3cret"

Emails == {"", STUDENT_EMAIL, "Student@Example.com", "wrong@email.com"}

Secrets == {"", STUDENT_SECRET, "S3CRET", "wrong-secret"}

URLs == {"https://quiz/1", "https://quiz/2"}

InitialUrls == {"", "https://quiz/1"}

-----------------------------------------------------------------------------
(* Strings are sequences of one-character strings.  The operators below    *)
(* are the str and re operations parse_answer uses.                        *)

UpperCase == <<"A", "B", "C", "D", "E", "F", "G", "H", "I", "J", "K", "L", "M",
               "N", "O", "P", "Q", "R", "S", "T", "U", "V", "W", "X", "Y", "Z">>

LowerCase == <<"a", "b", "c", "d", "e", "f", "g", "h", "i", "j", "k", "l", "m",
               "n", "o", "p", "q", "r", "s", "t", "u", "v", "w", "x", "y", "z">>

Digits == <<"0", "1", "2", "3", "4", "5", "6", "7", "8", "9">>

Whitespace == {" "}

IsDigit(c) == \E d \in 1..10 : Digits[d] = c

DigitValue(c) == (CHOOSE d \in 1..10 : Digits[d] = c) - 1

\* str.lower(), one character
lower_char(c) ==
    IF \E k \in 1..26 : UpperCase[k] = c
    THEN LowerCase[CHOOSE k \in 1..26 : UpperCase[k] = c]
    ELSE c

\* str.lower()
lower(s) == [i \in 1..Len(s) |-> lower_char(s[i])]

\* str.strip()
strip(s) ==
    LET keep == {i \in 1..Len(s) : s[i] \notin Whitespace}
    IN  IF keep = {} THEN <<>>
        ELSE LET first == CHOOSE i \in keep : \A j \in keep : i <= j
                 last  == CHOOSE i \in keep : \A j \in keep : j <= i
             IN  SubSeq(s, first, last)

\* `word in s`
contains(s, word) ==
    \E i \in 1..(Len(s) - Len(word) + 1) : SubSeq(s, i, i + Len(word) - 1) = word

\* str.startswith()
startswith(s, prefix) ==
    Len(s) >= Len(prefix) /\ SubSeq(s, 1, Len(prefix)) = prefix

\* The index after the longest run of digits of s that starts at i (\d*).
RECURSIVE digits_end(_, _)
digits_end(s, i) ==
    IF i <= Len(s) /\ IsDigit(s[i]) THEN digits_end(s, i + 1) ELSE i

\* re: the match of -?\d+\.?\d* that starts exactly at i, as the index after
\* it, or 0 when there is none.  Every part after \d+ is optional, so the
\* greedy choice never has to be undone.
match_number(s, i) ==
    LET d == IF s[i] = "-" /\ i < Len(s) /\ IsDigit(s[i + 1]) THEN i + 1 ELSE i
    IN  IF ~IsDigit(s[d]) THEN 0
        ELSE LET j == digits_end(s, d)
                 k == IF j <= Len(s) /\ s[j] = "." THEN j + 1 ELSE j
             IN  digits_end(s, k)

\* re.findall(r'-?\d+\.?\d*', s), scanning from i
RECURSIVE findall_numbers(_, _)
findall_numbers(s, i) ==
    IF i > Len(s) THEN <<>>
    ELSE LET m == match_number(s, i)
         IN  IF m = 0 THEN findall_numbers(s, i + 1)
             ELSE <<SubSeq(s, i, m - 1)>> \o findall_numbers(s, m)

\* The value of a run of digits.
RECURSIVE digits_value(_)
digits_value(ds) ==
    IF ds = <<>> THEN 0
    ELSE 10 * digits_value(SubSeq(ds, 1, Len(ds) - 1)) + DigitValue(ds[Len(ds)])

\* A numeric literal taken apart: sign, integer part, fractional digits with
\* their trailing zeros dropped.
literal_parts(lit) ==
    LET neg  == lit[1] = "-"
        body == IF neg THEN Tail(lit) ELSE lit
        dots == {i \in 1..Len(body) : body[i] = "."}
        dot  == IF dots = {} THEN Len(body) + 1 ELSE CHOOSE i \in dots : TRUE
        frac == SubSeq(body, dot + 1, Len(body))
        nz   == {i \in 1..Len(frac) : frac[i] # "0"}
        last == IF nz = {} THEN 0 ELSE CHOOSE i \in nz : \A j \in nz : j <= i
    IN  [neg  |-> neg,
         int  |-> digits_value(SubSeq(body, 1, dot - 1)),
         frac |-> SubSeq(frac, 1, last)]

\* int(float(lit)): float() reads the literal, int() drops the fraction
\* (rounds toward zero).
int_of_float(lit) ==
    LET p == literal_parts(lit)
    IN  IF p.neg THEN 0 - p.int ELSE p.int

\* Typed answers
BoolAnswer(b) == [type |-> "bool", b |-> b]

IntAnswer(n) == [type |-> "int", n |-> n]

FloatAnswer(neg, int, frac) == [type |-> "float", neg |-> neg, int |-> int, frac |-> frac]

DictAnswer == [type |-> "dict", items |-> <<>>]

StrAnswer(s) == [type |-> "str", s |-> s]

NoAnswer == [type |-> "none"]

\* json.loads on a text that holds "{" and "}".  The texts of the model have
\* no quote, bracket or letter of a JSON literal, so the only document with
\* both braces is the empty object; anything else raises JSONDecodeError.
json_loads_ok(s) ==
    /\ Len(s) >= 2
    /\ s[1] = "{"
    /\ s[Len(s)] = "}"
    /\ \A i \in 2..(Len(s) - 1) : s[i] \in Whitespace

BooleanWords == {<<"t", "r", "u", "e">>, <<"f", "a", "l", "s", "e">>,
                 <<"y", "e", "s">>, <<"n", "o">>}

TrueWords == {<<"t", "r", "u", "e">>, <<"y", "e", "s">>, <<"1">>}

NumberWords == {<<"s", "u", "m">>, <<"t", "o", "t", "a", "l">>,
                <<"c", "o", "u", "n", "t">>, <<"n", "u", "m", "b", "e", "r">>,
                <<"c", "a", "l", "c", "u", "l", "a", "t", "e">>,
                <<"v", "a", "l", "u", "e">>}

\* quiz_solver.py:105
is_boolean_instruction(instruction) ==
    \E word \in BooleanWords : contains(lower(instruction), word)

\* quiz_solver.py:109
is_number_instruction(instruction) ==
    \E word \in NumberWords : contains(lower(instruction), word)

\* quiz_solver.py:114  the value returned for the literal numbers[-1]
number_answer(lit) == IntAnswer(int_of_float(lit))

\* The comparison made without .lower().
boolean_answer_case_sensitive(text) == BoolAnswer(text \in TrueWords)

\* quiz_solver.py:106
boolean_answer(text) == BoolAnswer(lower(text) \in TrueWords)

\* The numeric rule tried before the boolean rule.
parse_answer_numeric_first(response0, instruction) ==
    LET text    == strip(response0)
        numbers == findall_numbers(text, 1)
    IN  IF is_number_instruction(instruction) /\ numbers # <<>>
        THEN number_answer(numbers[Len(numbers)])
        ELSE IF is_boolean_instruction(instruction)
        THEN boolean_answer(text)
        ELSE IF contains(text, <<"{">>) /\ contains(text, <<"}">>) /\ json_loads_ok(text)
        THEN DictAnswer
        ELSE StrAnswer(text)

\* quiz_solver.py:100-129
parse_answer(response0, instruction) ==
    LET text    == strip(response0)
        numbers == findall_numbers(text, 1)
    IN  IF is_boolean_instruction(instruction)
        THEN boolean_answer(text)
        ELSE IF is_number_instruction(instruction) /\ numbers # <<>>
        THEN number_answer(numbers[Len(numbers)])
        ELSE IF contains(text, <<"{">>) /\ contains(text, <<"}">>) /\ json_loads_ok(text)
        THEN DictAnswer
        ELSE IF startswith(text, <<"d", "a", "t", "a", ":">>) /\ contains(text, <<";">>)
        THEN StrAnswer(text)
        ELSE StrAnswer(text)

\* Instructions handed to parse_answer
I_total == <<"W", "h", "a", "t", " ", "i", "s", " ", "t", "h", "e", " ", "t", "o", "t", "a", "l", "?">>  \* What is the total?

I_yesno == <<"I", "s", " ", "i", "t", " ", "v", "a", "l", "i", "d", "?", " ", "(", "y", "e", "s", "/", "n", "o", ")">>  \* Is it valid? (yes/no)

I_TRUE == <<"T", "R", "U", "E", " ", "o", "r", " ", "F", "A", "L", "S", "E", ":", " ", "2", " ", ">", " ", "1">>  \* TRUE or FALSE: 2 > 1

I_unknown == <<"C", "o", "u", "n", "t", " ", "u", "n", "k", "n", "o", "w", "n", " ", "r", "o", "w", "s">>  \* Count unknown rows

I_SUM == <<"S", "U", "M", " ", "o", "f", " ", "c", "o", "l", "u", "m", "n", " ", "A">>  \* SUM of column A

I_plain == <<"N", "a", "m", "e", " ", "t", "h", "e", " ", "c", "i", "t", "y">>  \* Name the city

I_both == <<"I", "s", " ", "t", "h", "e", " ", "t", "o", "t", "a", "l", " ", "t", "r", "u", "e", "?">>  \* Is the total true?

Instructions == {I_total, I_yesno, I_TRUE, I_unknown, I_SUM, I_plain, I_both}

\* Characters of the model texts handed to parse_answer
TextChars == {"0", "1", ".", "-", " ", "y", "Y", "e", "s"}

RECURSIVE SeqsUpTo(_, _)
SeqsUpTo(S, n) ==
    IF n = 0 THEN {<<>>}
    ELSE LET shorter == SeqsUpTo(S, n - 1)
         IN  shorter \cup {Append(t, c) : t \in shorter, c \in S}

\* Characters of the model texts with braces
BraceChars == {"{", "}", " ", "1"}

\* A data URI, the shortest kind.
DataUriTexts == {<<"d", "a", "t", "a", ":", ";", "1">>}

Texts ==
    SeqsUpTo(TextChars, MaxLen) \cup SeqsUpTo(BraceChars, MaxLen) \cup DataUriTexts

-----------------------------------------------------------------------------
(* The task store and the values that pass through the driver *)

NoResult == [none |-> TRUE]

Success == [success |-> TRUE, message |-> "All quizzes completed"]

Error(reason) == [error |-> reason]

NoVerdict == [none |-> TRUE]

NoPayload == [none |-> TRUE]

NoResponse == [op |-> "none"]

NoArgs == [none |-> TRUE]

\* main.py:138-142
new_entry == [status |-> "processing", logs |-> <<>>, result |-> NoResult]

\* The line replaces the log in place of being appended to it.
log_last_only(qr, task_id, message) ==
    [qr EXCEPT ![task_id].logs = <<message>>]

\* A single log list shared by every task, in place of the task's own.
log_shared(qr, task_id, message) ==
    [k \in DOMAIN qr |-> [qr[k] EXCEPT !.logs = Append(@, message)]]

\* main.py:144-147  the timestamp prefix of a line is left out
log(qr, task_id, message) ==
    [qr EXCEPT ![task_id].logs = Append(@, message)]

set_status(qr, task_id, status) == [qr EXCEPT ![task_id].status = status]

set_result(qr, task_id, res) == [qr EXCEPT ![task_id].result = res]

\* The secret is not compared.
verify_email_only(email, secret) == email = STUDENT_EMAIL

\* main.py:63-65
verify_credentials(email, secret) ==
    email = STUDENT_EMAIL /\ secret = STUDENT_SECRET

\* The return value of extract_submit_url: a string, or None.
NoUrl == [found |-> FALSE]

Url(text) == [found |-> TRUE, text |-> text]

HTTP == <<"h", "t", "t", "p", ":", "/", "/">>

HTTPS == <<"h", "t", "t", "p", "s", ":", "/", "/">>

Quote == "\""

\* The characters [^\s"'<>] excludes.
UrlStop == Whitespace \cup {Quote, "'", "<", ">"}

\* main.py:93-97  the three patterns, in the order of the list
patterns == <<"submit", "api_submit", "url_literal">>

\* The literal tail of the first two patterns.
suffix_of(pattern) ==
    IF pattern = "submit"
    THEN <<"/", "s", "u", "b", "m", "i", "t">>
    ELSE <<"/", "a", "p", "i", "/", "s", "u", "b", "m", "i", "t">>

URL_KEY == <<"\"", "u", "r", "l", "\"", ":">>

\* The literal lit stands in s at index i.
occurs_at(s, i, lit) ==
    i >= 1 /\ i + Len(lit) - 1 <= Len(s) /\ SubSeq(s, i, i + Len(lit) - 1) = lit

\* The first index from i on that holds a character of stop, Len(s) + 1 when
\* there is none: the end of a greedy run of a negated character class.
RECURSIVE run_end(_, _, _)
run_end(s, i, stop) ==
    IF i > Len(s) \/ s[i] \in stop THEN i ELSE run_end(s, i + 1, stop)

\* The first index from i on that holds no whitespace (\s*).
RECURSIVE whitespace_end(_, _)
whitespace_end(s, i) ==
    IF i > Len(s) \/ s[i] \notin Whitespace THEN i ELSE whitespace_end(s, i + 1)

\* https?:// at index i: the index after it, 0 when it does not match.
scheme_end(s, i) ==
    IF occurs_at(s, i, HTTPS) THEN i + Len(HTTPS)
    ELSE IF occurs_at(s, i, HTTP) THEN i + Len(HTTP)
    ELSE 0

\* https?://[^\s"'<>]+<suffix> at index i: the index after the match, 0
\* when it does not match.  The class is greedy, so the match ends with the
\* last occurrence of the suffix in the run, one character or more after
\* the scheme.
url_ending_match(s, i, suffix) ==
    LET j      == scheme_end(s, i)
        e      == run_end(s, j, UrlStop)
        starts == {k \in (j + 1)..(e - Len(suffix)) : occurs_at(s, k, suffix)}
    IN  IF j = 0 \/ starts = {} THEN 0
        ELSE (CHOOSE k \in starts : \A m \in starts : m <= k) + Len(suffix)

\* "url":\s*"(https?://[^"]+)" at index i: the indices of group 1 and the
\* index after the match; stop = 0 when it does not match.
url_literal_match(s, i) ==
    LET open == whitespace_end(s, i + Len(URL_KEY))
        j    == scheme_end(s, open + 1)
        e    == run_end(s, j, {Quote})
    IN  IF /\ occurs_at(s, i, URL_KEY)
           /\ occurs_at(s, open, <<Quote>>)
           /\ j # 0
           /\ e > j
           /\ e <= Len(s)
        THEN [first |-> open + 1, last |-> e - 1, stop |-> e + 1]
        ELSE [first |-> 0, last |-> 0, stop |-> 0]

\* The index after the match of a pattern at index i, 0 when there is none.
match_end(pattern, s, i) ==
    IF pattern = "url_literal"
    THEN url_literal_match(s, i).stop
    ELSE url_ending_match(s, i, suffix_of(pattern))

\* re.search(pattern, html): the index of the leftmost match, 0 for None
search(pattern, s) ==
    LET hits == {i \in 1..Len(s) : match_end(pattern, s, i) # 0}
    IN  IF hits = {} THEN 0 ELSE CHOOSE i \in hits : \A k \in hits : i <= k

\* match.group(0)
group0(pattern, s) ==
    LET i == search(pattern, s)
    IN  SubSeq(s, i, match_end(pattern, s, i) - 1)

\* str.replace('"', '')
remove_quotes(text) == SelectSeq(text, LAMBDA c : c # Quote)

\* main.py:98-102  the loop over the patterns, from the n-th on
RECURSIVE first_match(_, _)
first_match(html, n) ==
    IF n > Len(patterns) THEN NoUrl
    ELSE IF search(patterns[n], html) # 0
    THEN Url(remove_quotes(group0(patterns[n], html)))
    ELSE first_match(html, n + 1)

\* main.py:90-102
extract_submit_url(html) == first_match(html, 1)

\* No extraction result is taken for missing.
submit_url_never_missing(url) == FALSE

\* main.py:179  `if not submit_url`
submit_url_missing(url) == ~url.found \/ url.text = <<>>

\* requests.post finds a connection adapter for http:// and https:// URLs
\* only; for any other string it raises before anything is sent.
usable_url(url) ==
    /\ url.found
    /\ startswith(lower(url.text), HTTP) \/ startswith(lower(url.text), HTTPS)

\* Rendered pages: the text of the element with id="result", when there is
\* one, and the rest of the page text, where the submit URL may be written.
HtmlPages ==
    { [has_div |-> TRUE,  div |-> I_total,
       text |-> <<"<", "a", " ", "h", "r", "e", "f", "=", "\"", "h", "t", "t", "p", "s", ":", "/", "/", "q", "/", "s", "u", "b", "m", "i", "t", "\"", ">">>],
      [has_div |-> TRUE,  div |-> I_yesno,
       text |-> <<"<", "a", " ", "h", "r", "e", "f", "=", "\"", "h", "t", "t", "p", "s", ":", "/", "/", "q", "/", "s", "u", "b", "m", "i", "t", "\"", ">">>],
      [has_div |-> TRUE,  div |-> I_total,
       text |-> <<"{", "\"", "u", "r", "l", "\"", ":", " ", "\"", "h", "t", "t", "p", "s", ":", "/", "/", "q", "/", "a", "n", "s", "w", "e", "r", "\"", "}">>],
      [has_div |-> TRUE,  div |-> I_total,
       text |-> <<"<", "a", " ", "h", "r", "e", "f", "=", "\"", "/", "n", "e", "x", "t", "\"", ">">>],
      [has_div |-> FALSE, div |-> <<>>, text |-> <<>>] }

\* main.py:77-88
extract_quiz_instruction(html) ==
    IF html.has_div THEN strip(html.div) ELSE <<>>

\* main.py:174-178  the two extractions, for every page
extracted ==
    {[quiz_data  |-> extract_quiz_instruction(html),
      submit_url |-> extract_submit_url(html.text)] : html \in HtmlPages}

\* Outcomes of the model API call: a text, or an exception.
LlmOutcomes ==
    { [raised |-> FALSE, text |-> <<"1">>],
      [raised |-> FALSE, text |-> <<"1", ".", "1">>],
      [raised |-> TRUE,  text |-> <<>>] }

\* quiz_solver.py:62-82  every exception of the call is caught and "" returned
analyze_data(outcome) ==
    IF outcome.raised THEN <<>> ELSE outcome.text

\* Messages of the exceptions fetch_quiz_page raises; str(e) may be empty.
ExcMessages == {"", "net::ERR_CONNECTION_REFUSED"}

Reasons == {None, "Wrong answer"}

\* A verdict object.  `reason` is read at main.py:215 only, so only a verdict
\* that reaches that line is given one.
Verdict(correct, url, reason) ==
    [is_dict |-> TRUE, correct |-> correct, url |-> url, reason |-> reason]

\* A JSON body that is no object (a list, a number): response.json() returns
\* it and result.get raises AttributeError at main.py:200.
NotAnObject == [is_dict |-> FALSE]

FollowUpVerdicts == {Verdict(c, u, None) : c \in BOOLEAN, u \in URLs}

FinalVerdicts ==
    {Verdict(TRUE, None, None)} \cup {Verdict(FALSE, None, r) : r \in Reasons}

\* The message of the exception requests.post raises in the model.
TransportError == "ConnectionError"

\* Outcomes of requests.post(...).json(): a body, or an exception (timeout,
\* connection error, a body that is not JSON).
PostOutcomes(follow, url, next_verdicts) ==
    IF ~usable_url(url)
    THEN {[raised |-> TRUE, json |-> NotAnObject, msg |-> "InvalidSchema"]}
    ELSE {[raised |-> FALSE, json |-> v, msg |-> ""] :
             v \in FinalVerdicts \cup {NotAnObject}
                   \cup (IF follow THEN next_verdicts ELSE {})}
         \cup {[raised |-> TRUE, json |-> NotAnObject, msg |-> TransportError]}

\* main.py:119-133
submit_answer(outcome) ==
    IF outcome.raised THEN Verdict(FALSE, None, outcome.msg) ELSE outcome.json

\* main.py:160
time_exceeded(t) == (now - attempt_start[t]) > TimeBudget

\* The attempt cap tested with <= in place of <.
loop_continues_one_more(t) ==
    current_url[t] # None /\ attempt_count[t] <= max_attempts

\* main.py:156
loop_continues(t) == current_url[t] # None /\ attempt_count[t] < max_attempts

\* The cap tested with > in place of >=.
attempts_exhausted_strictly(t) == attempt_count[t] > max_attempts

\* main.py:231
attempts_exhausted(t) == attempt_count[t] >= max_attempts

\* The URL of an incorrect verdict is not taken up.
next_url_when_correct(v, url) == IF v.correct THEN v.url ELSE url

\* main.py:202, 210-213  current_url after a verdict that names a next URL,
\* or that is correct
next_url(v, url) == IF v.correct \/ v.url # None THEN v.url ELSE url

\* main.py:215
verdict_reason(v) == IF v.reason = None THEN "Unknown error" ELSE v.reason

\* main.py:226
error_text(msg) == IF msg = "" THEN "Unknown error occurred" ELSE msg

InCall == {"L171", "L187", "L196", "L229"}

-----------------------------------------------------------------------------
(* Initial states *)

InitTasks(pool, chain, next_verdicts) ==
    /\ follow_up_verdicts = next_verdicts
    /\ quiz_results = <<>>
    /\ pc = [t \in TaskIds |-> "idle"]
    /\ running = None
    /\ now = 0
    /\ uuid_pool = pool
    /\ follow_ups = chain
    /\ args = [t \in TaskIds |-> NoArgs]
    /\ current_url = [t \in TaskIds |-> None]
    /\ attempt_start = [t \in TaskIds |-> 0]
    /\ attempt_count = [t \in TaskIds |-> 0]
    /\ quiz_data = [t \in TaskIds |-> <<>>]
    /\ submit_url = [t \in TaskIds |-> NoUrl]
    /\ llm_error = [t \in TaskIds |-> FALSE]
    /\ payload = [t \in TaskIds |-> NoPayload]
    /\ result = [t \in TaskIds |-> NoVerdict]
    /\ exc = [t \in TaskIds |-> None]
    /\ renders = [t \in TaskIds |-> 0]
    /\ posts = [t \in TaskIds |-> 0]
    /\ response = NoResponse

InitParseIdle ==
    /\ p_instruction = <<>>
    /\ p_response = <<>>
    /\ p_answer = NoAnswer
    /\ p_pc = "off"

InitExtractIdle ==
    /\ e_html = <<>>
    /\ e_url = NoUrl
    /\ e_pc = "off"

\* One client: a single quiz request is accepted, and the quiz server may
\* hand out a follow-up URL at every iteration.
Init == InitTasks({"t1"}, ChainLen, FollowUpVerdicts) /\ InitParseIdle /\ InitExtractIdle

\* Two clients, short chains.
InitConc == InitTasks(TaskIds, ConcChainLen, FollowUpVerdicts) /\ InitParseIdle /\ InitExtractIdle

-----------------------------------------------------------------------------
(* The HTTP handlers.  A handler runs when the event loop is free and does *)
(* not suspend.                                                            *)

\* main.py:245-263
HandleQuiz(email, secret, url) ==
    /\ running = None
    /\ IF email = "" \/ secret = "" \/ url = ""
       THEN /\ response' = [op |-> "quiz", code |-> 400]
            /\ UNCHANGED <<pc, args, uuid_pool>>
       ELSE IF ~verify_credentials(email, secret)
       THEN /\ response' = [op |-> "quiz", code |-> 403]
            /\ UNCHANGED <<pc, args, uuid_pool>>
       ELSE \E task_id \in uuid_pool :
            /\ uuid_pool' = uuid_pool \ {task_id}
            /\ pc' = [pc EXCEPT ![task_id] = "queued"]
            /\ args' = [args EXCEPT ![task_id] =
                           [email |-> email, secret |-> secret, initial_url |-> url]]
            /\ response' = [op |-> "quiz", code |-> 200, task_id |-> task_id]
    /\ UNCHANGED <<quiz_results, running, now, follow_ups, current_url,
                   attempt_start, attempt_count, quiz_data, submit_url, llm_error,
                   payload, result, exc, renders, posts, parseVars, extractVars,
                   follow_up_verdicts>>

\* main.py:265-270
GetQuizStatus(task_id) ==
    /\ running = None
    /\ response' = IF task_id \in DOMAIN quiz_results
                   THEN [op |-> "status", code |-> 200, task_id |-> task_id,
                         body |-> quiz_results[task_id]]
                   ELSE [op |-> "status", code |-> 404, task_id |-> task_id]
    /\ UNCHANGED <<quiz_results, pc, running, now, uuid_pool, follow_ups, args,
                   current_url, attempt_start, attempt_count, quiz_data, submit_url,
                   llm_error, payload, result, exc, renders, posts, parseVars, extractVars,
                   follow_up_verdicts>>

-----------------------------------------------------------------------------
(* process_quiz_chain, one action per stretch of code between two points   *)
(* where the coroutine waits or writes the task's status.                  *)

\* main.py:135-154  the background task starts
Start(t) ==
    /\ pc[t] = "queued"
    /\ running = None
    /\ running' = t
    /\ quiz_results' =
           log([k \in DOMAIN quiz_results \cup {t} |->
                    IF k = t THEN new_entry ELSE quiz_results[k]],
               t, "Starting quiz processing")
    /\ current_url' = [current_url EXCEPT ![t] = args[t].initial_url]
    /\ attempt_start' = [attempt_start EXCEPT ![t] = now]
    /\ attempt_count' = [attempt_count EXCEPT ![t] = 0]
    /\ pc' = [pc EXCEPT ![t] = "L156"]
    /\ response' = NoResponse
    /\ UNCHANGED <<now, uuid_pool, follow_ups, args, quiz_data, submit_url,
                   llm_error, payload, result, exc, renders, posts, parseVars, extractVars,
                   follow_up_verdicts>>

\* main.py:156-171  the loop test, the time check, the call of fetch_quiz_page
While(t) ==
    /\ pc[t] = "L156"
    /\ running = t
    /\ response' = NoResponse
    /\ IF ~loop_continues(t)
       THEN /\ pc' = [pc EXCEPT ![t] = "L231"]
            /\ UNCHANGED <<quiz_results, running, attempt_count, llm_error, renders>>
       ELSE /\ attempt_count' = [attempt_count EXCEPT ![t] = @ + 1]
            /\ UNCHANGED llm_error
            /\ IF time_exceeded(t)
               THEN /\ quiz_results' =
                        set_status(log(quiz_results, t, "Exceeded 3-minute limit"),
                                   t, "failed")
                    /\ pc' = [pc EXCEPT ![t] = "L163"]
                    /\ UNCHANGED <<running, renders>>
               ELSE /\ quiz_results' =
                        log(log(quiz_results, t, "Processing quiz"),
                            t, "Fetching quiz page...")
                    /\ renders' = [renders EXCEPT ![t] = @ + 1]
                    /\ pc' = [pc EXCEPT ![t] = "L171"]
                    /\ running' = None
    /\ UNCHANGED <<now, uuid_pool, follow_ups, args, current_url, attempt_start,
                   quiz_data, submit_url, payload, result, exc, posts, parseVars, extractVars,
                   follow_up_verdicts>>

\* main.py:221-225  the except clause, up to the status write
handle_exception(qr, t) ==
    set_status(log(qr, t, "Error processing quiz"), t, "failed")

\* main.py:171-187  fetch_quiz_page returns or raises; extraction; the model call
FetchReturn(t) ==
    /\ pc[t] = "L171"
    /\ running = None
    /\ response' = NoResponse
    /\ \/ \E msg \in ExcMessages :
            /\ quiz_results' = handle_exception(quiz_results, t)
            /\ exc' = [exc EXCEPT ![t] = msg]
            /\ pc' = [pc EXCEPT ![t] = "L226"]
            /\ UNCHANGED <<quiz_data, submit_url>>
       \/ \E page \in extracted :
            /\ quiz_data' = [quiz_data EXCEPT ![t] = page.quiz_data]
            /\ submit_url' = [submit_url EXCEPT ![t] = page.submit_url]
            /\ IF submit_url_missing(page.submit_url)
               THEN /\ quiz_results' =
                        set_status(
                            log(log(quiz_results, t, "Quiz instruction"),
                                t, "Could not extract submit URL"),
                            t, "failed")
                    /\ pc' = [pc EXCEPT ![t] = "L182"]
               ELSE /\ quiz_results' =
                        log(log(quiz_results, t, "Quiz instruction"),
                            t, "Solving quiz using LLM...")
                    /\ pc' = [pc EXCEPT ![t] = "L187"]
            /\ UNCHANGED exc
    /\ running' = t
    /\ UNCHANGED <<now, uuid_pool, follow_ups, args, current_url, attempt_start,
                   attempt_count, llm_error, payload, result, renders, posts,
                   parseVars, extractVars,
                   follow_up_verdicts>>

\* main.py:187-196  the model call returns; the answer is parsed and posted
LlmReturn(t) ==
    /\ pc[t] = "L187"
    /\ running = t
    /\ response' = NoResponse
    /\ \E outcome \in LlmOutcomes :
         LET solution == analyze_data(outcome)
             answer   == parse_answer(solution, quiz_data[t])
         IN  /\ llm_error' = [llm_error EXCEPT ![t] = outcome.raised]
             /\ payload' = [payload EXCEPT ![t] =
                               [email |-> args[t].email, secret |-> args[t].secret,
                                url |-> current_url[t], answer |-> answer]]
    /\ quiz_results' =
           log(log(log(quiz_results, t, "LLM solution"), t, "Parsed answer"),
               t, "Submitting answer...")
    /\ posts' = [posts EXCEPT ![t] = @ + 1]
    /\ pc' = [pc EXCEPT ![t] = "L196"]
    /\ UNCHANGED <<running, now, uuid_pool, follow_ups, args, current_url,
                   attempt_start, attempt_count, quiz_data, submit_url, result, exc,
                   renders, parseVars, extractVars,
                   follow_up_verdicts>>

\* main.py:196-219  the verdict arrives and is acted on
PostReturn(t) ==
    /\ pc[t] = "L196"
    /\ running = t
    /\ response' = NoResponse
    /\ \E outcome \in PostOutcomes(follow_ups > 0, submit_url[t], follow_up_verdicts) :
         LET v      == submit_answer(outcome)
             logged == log(quiz_results, t, "Submission result")
         IN  /\ result' = [result EXCEPT ![t] = v]
             /\ follow_ups' = IF v.is_dict /\ v.url # None
                              THEN follow_ups - 1 ELSE follow_ups
             /\ IF ~v.is_dict
                THEN /\ quiz_results' = handle_exception(logged, t)
                     /\ exc' = [exc EXCEPT ![t] = "AttributeError"]
                     /\ pc' = [pc EXCEPT ![t] = "L226"]
                     /\ UNCHANGED <<current_url, running>>
                ELSE IF v.correct
                THEN /\ current_url' = [current_url EXCEPT ![t] = next_url(v, @)]
                     /\ exc' = exc
                     /\ IF v.url = None
                        THEN /\ quiz_results' =
                                 set_status(
                                     log(log(logged, t, "Answer correct!"),
                                         t, "Quiz completed successfully!"),
                                     t, "completed")
                             /\ pc' = [pc EXCEPT ![t] = "L206"]
                             /\ UNCHANGED running
                        ELSE /\ quiz_results' = log(logged, t, "Answer correct!")
                             /\ pc' = [pc EXCEPT ![t] = "L229"]
                             /\ running' = None
                ELSE /\ exc' = exc
                     /\ IF v.url # None
                        THEN /\ quiz_results' = log(logged, t, "Moving to next URL")
                             /\ current_url' = [current_url EXCEPT ![t] = next_url(v, @)]
                             /\ pc' = [pc EXCEPT ![t] = "L229"]
                             /\ running' = None
                        ELSE /\ quiz_results' =
                                 set_status(log(logged, t, "No next URL provided"),
                                            t, "failed")
                             /\ pc' = [pc EXCEPT ![t] = "L218"]
                             /\ UNCHANGED <<current_url, running>>
    /\ quiz_data' = [quiz_data EXCEPT ![t] = <<>>]
    /\ submit_url' = [submit_url EXCEPT ![t] = NoUrl]
    /\ payload' = [payload EXCEPT ![t] = NoPayload]
    /\ llm_error' = [llm_error EXCEPT ![t] = FALSE]
    /\ UNCHANGED <<now, uuid_pool, args, attempt_start, attempt_count,
                   renders, posts, parseVars, extractVars,
                   follow_up_verdicts>>

\* The time-limit failure writes no result.
result_at_without_time_limit(t) ==
    CASE pc[t] = "L163" -> NoResult
      [] pc[t] = "L182" -> Error("Could not find submit URL")
      [] pc[t] = "L206" -> Success
      [] pc[t] = "L218" -> Error(verdict_reason(result[t]))
      [] pc[t] = "L226" -> Error(error_text(exc[t]))
      [] pc[t] = "L234" -> Error("Max attempts reached")

\* main.py:163, 182, 206, 218, 226, 234  the result write that follows a status write
result_at(t) ==
    CASE pc[t] = "L163" -> Error("Time limit exceeded")
      [] pc[t] = "L182" -> Error("Could not find submit URL")
      [] pc[t] = "L206" -> Success
      [] pc[t] = "L218" -> Error(verdict_reason(result[t]))
      [] pc[t] = "L226" -> Error(error_text(exc[t]))
      [] pc[t] = "L234" -> Error("Max attempts reached")

\* The coroutine returns: its frame (the locals) is gone and the event loop
\* is free.
Return(t) ==
    /\ pc' = [pc EXCEPT ![t] = "done"]
    /\ running' = None
    /\ current_url' = [current_url EXCEPT ![t] = None]
    /\ attempt_start' = [attempt_start EXCEPT ![t] = 0]
    /\ attempt_count' = [attempt_count EXCEPT ![t] = 0]
    /\ result' = [result EXCEPT ![t] = NoVerdict]
    /\ exc' = [exc EXCEPT ![t] = None]

\* The result write and the break (or, at main.py:234, the return).
SetResult(t) ==
    /\ pc[t] \in {"L163", "L182", "L206", "L218", "L226", "L234"}
    /\ running = t
    /\ response' = NoResponse
    /\ quiz_results' = set_result(quiz_results, t, result_at(t))
    /\ IF pc[t] = "L234"
       THEN Return(t)
       ELSE /\ pc' = [pc EXCEPT ![t] = "L231"]
            /\ UNCHANGED <<running, current_url, attempt_start, attempt_count,
                           result, exc>>
    /\ UNCHANGED <<now, uuid_pool, follow_ups, args, quiz_data, submit_url,
                   llm_error, payload, renders, posts, parseVars, extractVars,
                   follow_up_verdicts>>

\* main.py:229  asyncio.sleep(1) returns
SleepReturn(t) ==
    /\ pc[t] = "L229"
    /\ running = None
    /\ running' = t
    /\ pc' = [pc EXCEPT ![t] = "L156"]
    /\ response' = NoResponse
    /\ UNCHANGED <<quiz_results, now, uuid_pool, follow_ups, args, current_url,
                   attempt_start, attempt_count, quiz_data, submit_url, llm_error,
                   payload, result, exc, renders, posts, parseVars, extractVars,
                   follow_up_verdicts>>

\* main.py:231-233  after the loop
AfterLoop(t) ==
    /\ pc[t] = "L231"
    /\ running = t
    /\ response' = NoResponse
    /\ IF attempts_exhausted(t)
       THEN /\ quiz_results' =
                set_status(log(quiz_results, t, "Max attempts reached"), t, "failed")
            /\ pc' = [pc EXCEPT ![t] = "L234"]
            /\ UNCHANGED <<running, current_url, attempt_start, attempt_count,
                           result, exc>>
       ELSE /\ Return(t)
            /\ UNCHANGED quiz_results
    /\ UNCHANGED <<now, uuid_pool, follow_ups, args, quiz_data, submit_url,
                   llm_error, payload, renders, posts, parseVars, extractVars,
                   follow_up_verdicts>>

\* Time passes while some call is in progress.
Tick ==
    /\ now < MaxTicks * TimeBudget
    /\ \E t \in TaskIds : pc[t] \in InCall
    /\ now' = now + TimeBudget
    /\ UNCHANGED <<quiz_results, pc, running, uuid_pool, follow_ups, args,
                   current_url, attempt_start, attempt_count, quiz_data, submit_url,
                   llm_error, payload, result, exc, renders, posts, response,
                   parseVars, extractVars,
                   follow_up_verdicts>>

TaskStep(t) ==
    \/ Start(t)
    \/ While(t)
    \/ FetchReturn(t)
    \/ LlmReturn(t)
    \/ PostReturn(t)
    \/ SetResult(t)
    \/ SleepReturn(t)
    \/ AfterLoop(t)

Next ==
    \/ \E email \in Emails, secret \in Secrets, url \in InitialUrls :
           HandleQuiz(email, secret, url)
    \/ \E task_id \in TaskIds : GetQuizStatus(task_id)
    \/ \E t \in TaskIds : TaskStep(t)
    \/ Tick

Spec == Init /\ [][Next]_vars

SpecConc == InitConc /\ [][Next]_vars

\* One client and a quiz server whose verdicts with a next URL are all of
\* one kind: correct or incorrect, always with the same next URL.
InitLive ==
    /\ \E v \in FollowUpVerdicts :
           InitTasks({"t1"}, ChainLen, {v})
    /\ InitParseIdle
    /\ InitExtractIdle

\* Every call the driver makes returns or raises, and the event loop resumes
\* a coroutine that is ready: a step of a started task that stays possible
\* is taken.
SpecLive ==
    InitLive /\ [][Next]_vars /\ \A t \in TaskIds : WF_vars(TaskStep(t))

-----------------------------------------------------------------------------
(* parse_answer on its own: every instruction with every model text *)

InitParse ==
    /\ InitTasks({}, 0, {})
    /\ InitExtractIdle
    /\ p_instruction \in Instructions
    /\ p_response \in Texts
    /\ p_answer = NoAnswer
    /\ p_pc = "call"

\* quiz_solver.py:100-129, called at main.py:117
ParseAnswer ==
    /\ p_pc = "call"
    /\ p_answer' = parse_answer(p_response, p_instruction)
    /\ p_pc' = "ret"
    /\ UNCHANGED <<p_instruction, p_response, taskVars, extractVars>>

NextParse == ParseAnswer

SpecParse == InitParse /\ [][NextParse]_vars

-----------------------------------------------------------------------------
(* extract_submit_url on its own: every page text of up to MaxPieces pieces *)

HtmlPieces ==
    { <<"<", "p", ">">>,
      <<" ">>,
      <<"h", "t", "t", "p", "s", ":", "/", "/", "q", "/", "s", "u", "b", "m", "i", "t">>,
      <<"h", "t", "t", "p", "s", ":", "/", "/", "q", "/", "a", "p", "i", "/", "s", "u", "b", "m", "i", "t">>,
      <<"\"", "u", "r", "l", "\"", ":", " ", "\"", "h", "t", "t", "p", ":", "/", "/", "q", "/", "n", "e", "x", "t", "\"">>,
      <<"h", "t", "t", "p", ":", "/", "/", "q", "/", "a">> }

\* The texts made of n pieces at most, joined.
RECURSIVE Joined(_)
Joined(n) ==
    IF n = 0 THEN {<<>>}
    ELSE LET shorter == Joined(n - 1)
         IN  shorter \cup {t \o piece : t \in shorter, piece \in HtmlPieces}

HtmlTexts == Joined(MaxPieces)

InitExtract ==
    /\ InitTasks({}, 0, {})
    /\ InitParseIdle
    /\ e_html \in HtmlTexts
    /\ e_url = NoUrl
    /\ e_pc = "call"

\* main.py:90-102, called at main.py:178
ExtractSubmitUrl ==
    /\ e_pc = "call"
    /\ e_url' = extract_submit_url(e_html)
    /\ e_pc' = "ret"
    /\ UNCHANGED <<e_html, taskVars, parseVars>>

NextExtract == ExtractSubmitUrl

SpecExtract == InitExtract /\ [][NextExtract]_vars

-----------------------------------------------------------------------------
(* Properties *)

Terminal == {"completed", "failed"}

NoEntry == [none |-> TRUE]

EntryOf(t) == IF t \in DOMAIN quiz_results THEN quiz_results[t] ELSE NoEntry

IsVerdict(v) == "correct" \in DOMAIN v

\* C1: once a task's status is "completed" or "failed", no later step changes
\* the status, nor the result once it has been written.
C1_TerminalAbsorbing ==
    [][\A t \in DOMAIN quiz_results :
          quiz_results[t].status \in Terminal =>
              /\ quiz_results'[t].status = quiz_results[t].status
              /\ quiz_results[t].result # NoResult =>
                     quiz_results'[t].result = quiz_results[t].result]_vars

\* C2: a task makes at most max_attempts iterations, render calls and
\* submissions, whatever the verdicts, and starts no render call in an
\* iteration whose time check finds more than the time budget elapsed.
C2_BoundedIterations ==
    [][\A t \in TaskIds :
          /\ attempt_count'[t] <= max_attempts
          /\ renders'[t] <= max_attempts
          /\ posts'[t] <= max_attempts
          /\ renders'[t] > renders[t] => now - attempt_start[t] <= TimeBudget]_vars

\* Ten iterations done, and the tenth verdict still names a next URL.
C2_Witness ==
    \E t \in TaskIds :
        /\ pc[t] = "L156"
        /\ attempt_count[t] = max_attempts
        /\ renders[t] = max_attempts
        /\ posts[t] = max_attempts
        /\ current_url[t] # None

\* C3: a task whose last verdict is correct=true with no next URL ends with
\* status "completed" and the success result.
C3_CorrectFinalVerdictCompletes ==
    [][\A t \in TaskIds :
          (/\ pc[t] # "done"
           /\ pc'[t] = "done"
           /\ IsVerdict(result[t])
           /\ result[t].correct
           /\ result[t].url = None)
          => /\ quiz_results'[t].status = "completed"
             /\ quiz_results'[t].result = Success]_vars

\* C4: a task is handed to the driver only for a request whose email and
\* secret equal the configured ones, and the step that does it answers 200
\* with the task id; a rejected request changes no task and no entry.
C4_CredentialsGate ==
    [][/\ \A t \in TaskIds :
            pc'[t] # "idle" =>
                /\ args'[t].email = STUDENT_EMAIL
                /\ args'[t].secret = STUDENT_SECRET
       /\ \A t \in TaskIds :
            (pc[t] = "idle" /\ pc'[t] # "idle") =>
                response' = [op |-> "quiz", code |-> 200, task_id |-> t]
       /\ (response'.op = "quiz" /\ response'.code # 200) =>
            /\ pc' = pc
            /\ args' = args
            /\ quiz_results' = quiz_results]_vars

\* A request was refused for its credentials.
C4_Witness == response.op = "quiz" /\ response.code = 403

\* C5: a status query for a task id handle_quiz has returned is never
\* answered "not found".
C5_AcceptedTaskIsFound ==
    (response.op = "status" /\ response.code = 404) => pc[response.task_id] = "idle"

\* The value the claim C6 expects for a numeric literal.
last_number_value(lit) ==
    LET p == literal_parts(lit)
    IN  IF p.frac = <<>>
        THEN IntAnswer(IF p.neg THEN 0 - p.int ELSE p.int)
        ELSE FloatAnswer(p.neg, p.int, p.frac)

\* C6: under an instruction with a numeric keyword and no boolean token, a
\* text with a numeric literal parses to the last literal: an integer when
\* it has no fractional remainder, the fractional value otherwise.
C6_LastNumberKeepsFraction ==
    LET numbers == findall_numbers(p_response, 1)
    IN  (/\ p_pc = "ret"
         /\ \E w \in NumberWords : contains(lower(p_instruction), w)
         /\ ~\E w \in BooleanWords : contains(lower(p_instruction), w)
         /\ numbers # <<>>)
        => p_answer = last_number_value(numbers[Len(numbers)])

\* C7: under an instruction holding "true", "false", "yes" or "no" in any
\* case, the answer is a boolean, true exactly when the trimmed text equals
\* "true", "yes" or "1" in any case.
C7_BooleanAnswer ==
    (/\ p_pc = "ret"
     /\ \E w \in BooleanWords : contains(lower(p_instruction), w))
    => /\ p_answer.type = "bool"
       /\ p_answer.b <=> lower(strip(p_response)) \in TrueWords

\* " Yes" under "TRUE or FALSE: 2 > 1": trimmed, case folded, true.
C7_Witness ==
    /\ p_pc = "ret"
    /\ p_instruction = I_TRUE
    /\ p_response = <<" ", "Y", "e", "s">>
    /\ p_answer = BoolAnswer(TRUE)

\* C8: when the model call fails, the task is marked failed and nothing is
\* submitted in that iteration.
C8_ModelFailureIsFatal ==
    \A t \in TaskIds :
        llm_error[t] =>
            /\ quiz_results[t].status = "failed"
            /\ payload[t] = NoPayload
            /\ pc[t] # "L196"

\* C9: while a task is inside its model call or its submission call, every
\* other task that waits to be resumed, and the status handler, can take a
\* step.
C9_TasksDoNotSerialize ==
    \A t \in TaskIds :
        pc[t] \in {"L187", "L196"} =>
            /\ \A u \in TaskIds \ {t} :
                   pc[u] \in {"queued", "L171", "L229"} => ENABLED TaskStep(u)
            /\ ENABLED GetQuizStatus(t)

\* C10: a step that changes the entry of task t is a step of t's own
\* process_quiz_chain and changes no other task's entry; the handlers change
\* no entry.
C10_OneWriterPerKey ==
    [][\A t \in TaskIds :
          EntryOf(t)' # EntryOf(t) =>
              /\ pc[t] \notin {"idle", "done"}
              /\ pc'[t] # pc[t]
              /\ response' = NoResponse
              /\ \A u \in TaskIds \ {t} :
                     pc'[u] = pc[u] /\ EntryOf(u)' = EntryOf(u)]_vars

\* Two tasks with entries of their own, one finished while the other runs.
C10_Witness ==
    /\ DOMAIN quiz_results = TaskIds
    /\ quiz_results["t1"].status = "completed"
    /\ quiz_results["t2"].status = "processing"
    /\ Len(quiz_results["t2"].logs) > Len(quiz_results["t1"].logs)

\* C11: a transport failure of the submission reaches the driver as a verdict
\* with correct=false and the failure as its reason, never as an exception,
\* and the task ends "failed" with that failure as the error of its result.
C11_TransportFailureIsTheReason ==
    [][\A t \in TaskIds :
          /\ (/\ pc[t] = "L196"
              /\ pc'[t] # "L196"
              /\ IsVerdict(result'[t])
              /\ result'[t].reason = TransportError)
             => /\ pc'[t] = "L218"
                /\ ~result'[t].correct
                /\ quiz_results'[t].status = "failed"
          /\ (/\ pc[t] # "done"
              /\ pc'[t] = "done"
              /\ IsVerdict(result[t])
              /\ result[t].reason = TransportError)
             => /\ quiz_results'[t].status = "failed"
                /\ quiz_results'[t].result = Error(TransportError)]_vars

IsPrefix(s, t) == Len(s) <= Len(t) /\ SubSeq(t, 1, Len(s)) = s

\* C12: every step leaves the log a task had as a prefix of the log it has
\* afterwards, and a status query is answered with the entry as it stands at
\* the query, the lines appended so far included.
C12_LogAppendOnly ==
    [][/\ \A t \in DOMAIN quiz_results :
            IsPrefix(quiz_results[t].logs, quiz_results'[t].logs)
       /\ (response'.op = "status" /\ response'.code = 200) =>
            \/ response' = response
            \/ response'.body = quiz_results[response'.task_id]]_vars

\* A query answered in flight: the task is in its first fetch, three lines
\* are in the log and the answer shows them.
C12_Witness ==
    /\ response.op = "status"
    /\ response.code = 200
    /\ response.body.status = "processing"
    /\ response.body.logs =
           <<"Starting quiz processing", "Processing quiz", "Fetching quiz page...">>
    /\ pc[response.task_id] = "L171"

\* The line main.py:180 logs is the last line of the log of task t, or the
\* last but one, before the line of main.py:232.
MissingUrlLogged(t) ==
    /\ t \in DOMAIN quiz_results
    /\ LET logs == quiz_results[t].logs
           n    == Len(logs)
       IN  \/ logs[n] = "Could not extract submit URL"
           \/ /\ logs[n] = "Max attempts reached"
              /\ logs[n - 1] = "Could not extract submit URL"

\* C13: the step in which extraction yields no submit URL sets the task to
\* "failed" without calling the model or posting, and from then on the task
\* stays "failed", renders no page, calls no model and posts nothing.
C13_MissingSubmitUrlFails ==
    [][\A t \in TaskIds :
          /\ (/\ pc[t] = "L171"
              /\ pc'[t] \notin {"L171", "L226"}
              /\ ~submit_url'[t].found)
             => /\ pc'[t] = "L182"
                /\ quiz_results'[t].status = "failed"
                /\ posts'[t] = posts[t]
                /\ payload'[t] = NoPayload
          /\ MissingUrlLogged(t)
             => /\ quiz_results'[t].status = "failed"
                /\ renders'[t] = renders[t]
                /\ posts'[t] = posts[t]
                /\ pc'[t] \notin {"L171", "L187", "L196", "L229"}]_vars

\* The second page of a chain has no submit URL: the task is over after two
\* renders and one submission.
C13_Witness ==
    \E t \in TaskIds :
        /\ pc[t] = "done"
        /\ MissingUrlLogged(t)
        /\ renders[t] = 2
        /\ posts[t] = 1
        /\ quiz_results[t].status = "failed"

\* The last verdict of task t names a next URL.
HasNextUrl(v) == IsVerdict(v) /\ v.url # None

\* C14: a verdict with a next URL, correct or not, leaves the task in
\* "processing" with that URL as its current one; when the attempt cap and
\* the time budget allow it the next iteration starts, it renders that URL
\* and posts it as the `url` field.
C14_NextUrlIsFollowed ==
    [][\A t \in TaskIds :
          /\ (pc[t] = "L196" /\ pc'[t] # "L196" /\ HasNextUrl(result'[t]))
             => /\ quiz_results'[t].status = "processing"
                /\ pc'[t] = "L229"
                /\ current_url'[t] = result'[t].url
          /\ (/\ pc[t] = "L156"
              /\ pc'[t] # "L156"
              /\ HasNextUrl(result[t])
              /\ attempt_count[t] < max_attempts
              /\ now - attempt_start[t] <= TimeBudget)
             => /\ pc'[t] = "L171"
                /\ renders'[t] = renders[t] + 1
                /\ current_url'[t] = result[t].url
                /\ quiz_results'[t].status = "processing"
          /\ (HasNextUrl(result[t]) /\ posts'[t] > posts[t])
             => payload'[t].url = result[t].url]_vars

\* An incorrect verdict named https://quiz/2; the next iteration has
\* rendered it and is posting it.
C14_Witness ==
    \E t \in TaskIds :
        /\ pc[t] = "L196"
        /\ HasNextUrl(result[t])
        /\ ~result[t].correct
        /\ result[t].url = "https://quiz/2"
        /\ args[t].initial_url # "https://quiz/2"
        /\ payload[t].url = "https://quiz/2"
        /\ quiz_results[t].status = "processing"

\* C15: a task whose last verdict is correct=false with no next URL ends
\* with status "failed" and, as the error of its result, the reason the
\* verdict states, "Unknown error" when it states none.
C15_FinalIncorrectVerdictReason ==
    [][\A t \in TaskIds :
          (/\ pc[t] # "done"
           /\ pc'[t] = "done"
           /\ IsVerdict(result[t])
           /\ ~result[t].correct
           /\ result[t].url = None)
          => /\ quiz_results'[t].status = "failed"
             /\ quiz_results'[t].result =
                    Error(IF result[t].reason = None
                          THEN "Unknown error" ELSE result[t].reason)]_vars

\* The URL inside the first "url": "<absolute URL>" literal of html.
url_inside_literal(html) ==
    LET m == url_literal_match(html, search("url_literal", html))
    IN  SubSeq(html, m.first, m.last)

\* The value claim C16 states: the first match of the first pattern class
\* present, as the absolute URL itself.
stated_submit_url(html) ==
    IF search("submit", html) # 0 THEN Url(group0("submit", html))
    ELSE IF search("api_submit", html) # 0 THEN Url(group0("api_submit", html))
    ELSE IF search("url_literal", html) # 0 THEN Url(url_inside_literal(html))
    ELSE NoUrl

\* C16: extract_submit_url returns the first match of the first pattern
\* class present in the page, in the order /submit URL, /api/submit URL,
\* "url" literal, as the absolute URL itself, and None only when no class
\* matches.
C16_ReturnsTheUrlItself ==
    e_pc = "ret" =>
        /\ e_url = stated_submit_url(e_html)
        /\ e_url.found =>
               startswith(e_url.text, HTTP) \/ startswith(e_url.text, HTTPS)

\* C17: a task that leaves the loop at the attempt cap with no terminal
\* outcome ends "failed" with the reason "Max attempts reached"; and a task
\* is given that reason only when it is still "processing" after the loop,
\* that is, when no iteration ended with a terminal verdict, a missing
\* submit URL, an exception or the time limit.
C17_MaxAttemptsOnlyWithoutOutcome ==
    [][\A t \in TaskIds :
          /\ (/\ pc[t] = "L231"
              /\ pc'[t] # "L231"
              /\ attempt_count[t] >= max_attempts
              /\ quiz_results[t].status = "processing")
             => pc'[t] = "L234"
          /\ (pc[t] = "L234" /\ pc'[t] # "L234")
             => /\ quiz_results'[t].status = "failed"
                /\ quiz_results'[t].result = Error("Max attempts reached")
          /\ (pc[t] # "L234" /\ pc'[t] = "L234")
             => /\ quiz_results[t].status = "processing"
                /\ quiz_results[t].result = NoResult]_vars

\* C18: parse_answer returns the result of the first rule that fires, in
\* the order boolean, numeric, structured object, data URI, fallback: a
\* boolean under an instruction with a boolean token, whatever else the
\* instruction holds; else a number when the instruction has a numeric
\* keyword and the text a numeric literal; else the object when the text
\* has both braces and is well formed; else the trimmed text, verbatim.
C18_FirstRuleThatFires ==
    p_pc = "ret" =>
        LET text    == strip(p_response)
            boolean == \E w \in BooleanWords : contains(lower(p_instruction), w)
            numeric == /\ \E w \in NumberWords : contains(lower(p_instruction), w)
                       /\ \E i \in 1..Len(text) : IsDigit(text[i])
            object  == /\ contains(text, <<"{">>)
                       /\ contains(text, <<"}">>)
                       /\ json_loads_ok(text)
        IN  /\ boolean => p_answer.type = "bool"
            /\ (~boolean /\ numeric) => p_answer.type \in {"int", "float"}
            /\ (~boolean /\ ~numeric /\ object) => p_answer = DictAnswer
            /\ (~boolean /\ ~numeric /\ ~object) => p_answer = StrAnswer(text)

\* "1.1" under "Is the total true?": a boolean token and a numeric keyword,
\* a numeric literal in the text, and the answer is the boolean false.
C18_Witness ==
    /\ p_pc = "ret"
    /\ p_instruction = I_both
    /\ p_response = <<"1", ".", "1">>
    /\ p_answer = BoolAnswer(FALSE)

\* Status and result of an entry agree.
Agrees(entry) ==
    /\ entry.status = "processing" <=> entry.result = NoResult
    /\ entry.status = "completed" <=> entry.result = Success
    /\ entry.status = "failed" <=> "error" \in DOMAIN entry.result

\* C19: whenever the event loop is free, so that a status query can run,
\* status and result of every entry agree, and so does every entry a status
\* query has returned.
C19_StatusMatchesResult ==
    /\ running = None => \A t \in DOMAIN quiz_results : Agrees(quiz_results[t])
    /\ (response.op = "status" /\ response.code = 200) => Agrees(response.body)

\* A query answered after a tenth iteration that completed the quiz: the
\* status was "completed" and then "failed" within one run of the
\* coroutine, and the answer shows "failed" with its error.
C19_Witness ==
    /\ response.op = "status"
    /\ response.code = 200
    /\ response.body.status = "failed"
    /\ response.body.result = Error("Max attempts reached")
    /\ LET logs == response.body.logs
       IN  logs[Len(logs) - 1] = "Quiz completed successfully!"

\* C20: every task handle_quiz has started comes to its end, and at its end
\* its status is "completed" or "failed"; no task ends in "processing".
C20_EveryTaskEnds ==
    \A t \in TaskIds :
        /\ pc[t] = "queued" ~>
               (pc[t] = "done" /\ quiz_results[t].status \in Terminal)
        /\ [](pc[t] = "done" => quiz_results[t].status \in Terminal)

\* A task that left the loop at the attempt cap, its last verdict still
\* naming a next URL, and ended "failed".
C20_Witness ==
    \E t \in TaskIds :
        /\ pc[t] = "done"
        /\ renders[t] = max_attempts
        /\ posts[t] = max_attempts
        /\ quiz_results[t].status = "failed"
        /\ LET logs == quiz_results[t].logs
           IN  logs[Len(logs) - 1] \in {"Answer correct!", "Moving to next URL"}

=============================================================================
